---- MODULE Spec2Model ----
(***************************************************************************)
(* koishi-plugin-forward (src/src/index.ts, the revision of lines 220-497): *)
(* the address codec (parseTarget / formatTarget), the forward.* commands   *)
(* over the channel table, and the relay middleware with its correlation    *)
(* map and expiry timers.                                                   *)
(*                                                                          *)
(* Strings that the code slices or compares by prefix (platform names,      *)
(* channel ids, addresses) are sequences of one-character strings.  Opaque  *)
(* identifiers (selfId, guildId, message ids, names) are atomic strings.    *)
(***************************************************************************)
EXTENDS Integers, Sequences, FiniteSets, TLC

VARIABLES
  bots,       \* ctx.bots: the connected bots, in connection order
  target,     \* codec: the address last given to parseTarget
  parsed,     \* codec: what parseTarget returned for it
  formatted,  \* codec: formatTarget of that result ('' when it is null)
  store,      \* the channel table: (platform, id) -> the row's forward list
  cmds,       \* the forward.* command executions in flight, by slot
  config,     \* the plugin's config: mode, rules, replyTimeout
  relayMap,   \* relayMap: sent message id -> RelayEntry (Null: no entry)
  timers,     \* the pending ctx.setTimeout callbacks: [id, at]
  now,        \* the clock
  registered, \* history: per message id, when it was last registered and to what
  h           \* the middleware's handling of the current message

codecVars == <<target, parsed, formatted>>
cmdVars == <<store, cmds>>
relayVars == <<config, relayMap, timers, now, registered, h>>
vars == <<bots, target, parsed, formatted, store, cmds,
          config, relayMap, timers, now, registered, h>>

\* JavaScript null / undefined where a record is expected.
Null == [none |-> TRUE]

\* JavaScript undefined where an identifier (selfId, guildId, quote.id) is expected.
Undefined == "undefined"

(***************************************************************************)
(* String primitives (JavaScript String.prototype)                          *)
(***************************************************************************)
Colon == ":"

\* s.startsWith(p)
StartsWith(s, p) == Len(p) <= Len(s) /\ SubSeq(s, 1, Len(p)) = p

\* s.slice(from)
Slice(s, from) == SubSeq(s, from + 1, Len(s))

\* s.slice(0, to)
SliceTo(s, to) == SubSeq(s, 1, to)

\* s.indexOf(c): the 0-based index of the first c, -1 when there is none
IndexOf(s, c) ==
  IF \E i \in 1..Len(s) : s[i] = c
  THEN (CHOOSE i \in 1..Len(s) : s[i] = c /\ \A j \in 1..(i - 1) : s[j] # c) - 1
  ELSE -1

(***************************************************************************)
(* parseTarget (lines 291-302)                                              *)
(***************************************************************************)
\* [...new Set(list)]: the distinct elements in order of first occurrence
RECURSIVE Distinct(_)
Distinct(list) ==
  IF list = <<>> THEN <<>>
  ELSE LET init == Distinct(SubSeq(list, 1, Len(list) - 1))
           last == list[Len(list)]
       IN IF \E i \in 1..Len(init) : init[i] = last THEN init ELSE Append(init, last)

\* the mutant of InsertByLength: the comparator reversed, shortest name first
RECURSIVE InsertByLengthAscending(_, _)
InsertByLengthAscending(sorted, p) ==
  IF sorted = <<>> THEN <<p>>
  ELSE IF Len(Head(sorted)) <= Len(p)
       THEN <<Head(sorted)>> \o InsertByLengthAscending(Tail(sorted), p)
       ELSE <<p>> \o sorted

\* one insertion of Array.prototype.sort((a, b) => b.length - a.length),
\* which is stable: p goes after every element at least as long as it
RECURSIVE InsertByLength(_, _)
InsertByLength(sorted, p) ==
  IF sorted = <<>> THEN <<p>>
  ELSE IF Len(Head(sorted)) >= Len(p)
       THEN <<Head(sorted)>> \o InsertByLength(Tail(sorted), p)
       ELSE <<p>> \o sorted

RECURSIVE SortByLengthDesc(_)
SortByLengthDesc(list) ==
  IF list = <<>> THEN <<>>
  ELSE InsertByLength(SortByLengthDesc(SubSeq(list, 1, Len(list) - 1)),
                      list[Len(list)])

\* the platforms of the connected bots, longest first (lines 292-293)
PlatformsOf(botList) ==
  SortByLengthDesc(Distinct([i \in 1..Len(botList) |-> botList[i].platform]))

\* the loop's condition, line 295: p && target.startsWith(p + ':')
PrefixHit(p, t) == p # <<>> /\ StartsWith(t, p \o <<Colon>>)

\* lines 296 and 301: the platform is the first n characters, the channel id
\* what follows the delimiter
SplitAt(t, n) == [platform |-> SliceTo(t, n), channelId |-> Slice(t, n + 1)]

\* lines 299-301: split at the first ':'
FallbackSplit(t) ==
  LET idx == IndexOf(t, Colon) IN IF idx < 0 THEN Null ELSE SplitAt(t, idx)

parseTarget(botList, t) ==
  LET platforms == PlatformsOf(botList)
      hits == {i \in 1..Len(platforms) : PrefixHit(platforms[i], t)}
  IN IF hits # {}
     THEN LET first == CHOOSE i \in hits : \A j \in hits : i <= j
          IN SplitAt(t, Len(platforms[first]))
     ELSE FallbackSplit(t)

\* the mutant of formatTarget: the two parts joined without the delimiter
formatTargetNoColon(t) == t.platform \o t.channelId

\* formatTarget (lines 304-306)
formatTarget(t) == t.platform \o <<Colon>> \o t.channelId

\* the relay's variables where the relay is not run
RelayUnused ==
  /\ config = Null
  /\ relayMap = <<>>
  /\ timers = {}
  /\ now = 0
  /\ registered = <<>>
  /\ h = Null

(***************************************************************************)
(* The codec on its own: for every list of connected bots up to MaxBots and *)
(* every address up to MaxAddrLen characters, parseTarget is applied to the *)
(* address and formatTarget to its result.                                  *)
(***************************************************************************)
MaxAddrLen == 5
MaxPlatformLen == 3
MaxBots == 2

\* the characters of the addresses tried: a letter and the delimiter
CodecChars == {"a", Colon}

StringsUpTo(n) == UNION {[1..k -> CodecChars] : k \in 0..n}

\* platform names begin and end with a letter ("a", "aa", "a:a" as in
\* "sandbox:x"); the bots that may be connected: one per such name
CodecPlatforms ==
  {p \in StringsUpTo(MaxPlatformLen) \ {<<>>} : Head(p) # Colon /\ p[Len(p)] # Colon}

CodecBotPool == {[platform |-> p, selfId |-> "B1"] : p \in CodecPlatforms}

\* the lists of distinct bots, in every connection order
CodecBotLists ==
  {l \in UNION {[1..k -> CodecBotPool] : k \in 0..MaxBots} :
     \A i, j \in 1..Len(l) : i # j => l[i] # l[j]}

\* parseTarget(''), before any address is tried
InitCodec ==
  /\ bots \in CodecBotLists
  /\ target = <<>>
  /\ parsed = parseTarget(bots, <<>>)
  /\ formatted = <<>>
  /\ store = [k \in {} |-> <<>>]
  /\ cmds = <<>>
  /\ RelayUnused

\* parseTarget(t), and formatTarget of its result when there is one
CodecParse(t) ==
  /\ target = <<>>
  /\ target' = t
  /\ parsed' = parseTarget(bots, t)
  /\ formatted' = IF parsed' = Null THEN <<>> ELSE formatTarget(parsed')
  /\ UNCHANGED <<bots, cmdVars, relayVars>>

NextCodec == \E t \in StringsUpTo(MaxAddrLen) \ {<<>>} : CodecParse(t)

SpecCodec == InitCodec /\ [][NextCodec]_vars

\* the connected platform names
Connected == {bots[i].platform : i \in 1..Len(bots)}

\* target is p + ':' + c for the connected platform p
AddressOf(p) == StartsWith(target, p \o <<Colon>>)
RestAfter(p) == Slice(target, Len(p) + 1)

\* C5 as stated: for every connected platform p and every channel id c,
\* parseTarget(p + ':' + c) returns platform p and channelId c.
C5_AsStated ==
  \A p \in Connected :
    AddressOf(p) => parsed = [platform |-> p, channelId |-> RestAfter(p)]

\* C5 amended: parseTarget(p + ':' + c) returns platform p and channelId c for
\* every connected platform p and every c (also c containing ':'), unless a
\* longer connected platform name followed by ':' is a prefix of the address
\* too; the longest such name is the platform returned.
C5_LongestConnectedPrefix ==
  \A p \in Connected :
    (AddressOf(p) /\ \A q \in Connected : AddressOf(q) => Len(q) <= Len(p))
      => parsed = [platform |-> p, channelId |-> RestAfter(p)]

\* C5 witness: a connected platform, a channel id that contains ':', another
\* connected platform that is a shorter prefix, and the longer one returned
C5_Witness ==
  \E p \in Connected, q \in Connected :
    /\ AddressOf(p) /\ AddressOf(q) /\ Len(q) < Len(p)
    /\ \E i \in 1..Len(RestAfter(p)) : RestAfter(p)[i] = Colon
    /\ parsed = [platform |-> p, channelId |-> RestAfter(p)]

\* C6: for every address parseTarget accepts, formatTarget of the result is
\* the address itself.
C6_FormatParseRoundTrip == parsed # Null => formatted = target

\* C6 witness: an accepted address whose channel id contains ':' and whose
\* platform came from a connected bot, formatted back to itself
C6_Witness ==
  /\ parsed # Null
  /\ parsed.platform \in Connected
  /\ \E i \in 1..Len(parsed.channelId) : parsed.channelId[i] = Colon
  /\ formatted = target

\* C7 as stated: parseTarget returns null for every address without ':' and
\* for every address whose platform part is empty (it begins with ':').
C7_AsStated ==
  (IndexOf(target, Colon) < 0 \/ (target # <<>> /\ Head(target) = Colon))
    => parsed = Null

(***************************************************************************)
(* The forward.* commands of database mode (lines 419-496)                  *)
(***************************************************************************)
\* the mutant of findBot: the first connected bot, whatever its platform
findBotAnyPlatform(botList, platform) ==
  IF botList = <<>> THEN Undefined ELSE botList[1].selfId

\* findBot (lines 308-312): the selfId of the first connected bot of the platform
findBot(botList, platform) ==
  LET hits == {i \in 1..Len(botList) : botList[i].platform = platform}
  IN IF hits = {} THEN Undefined
     ELSE botList[CHOOSE i \in hits : \A j \in hits : i <= j].selfId

\* what stands for a channelId object without a usable id, as a key
ObjectKey == <<"[object Object]">>

\* getChannelId (lines 354-359): session.channelId is a scalar, or an object
\* whose nested id is taken when it is truthy
getChannelId(session) ==
  IF session.channelId.kind = "object"
  THEN IF session.channelId.id # <<>> THEN session.channelId.id ELSE ObjectKey
  ELSE session.channelId.id

\* the row a session's channel has in the channel table
RowKey(session) == <<session.platform, getChannelId(session)>>

\* the forward list of a row; no row (or no forward field) reads as [] (line 375, 381)
RowOf(key) == IF key \in DOMAIN store THEN store[key] ELSE <<>>

\* lines 439, 461: some target has the platform and the channel id
SameChannel(t, p) == t.platform = p.platform /\ t.channelId = p.channelId
HasTarget(list, p) == \E i \in 1..Len(list) : SameChannel(list[i], p)

\* line 443: { ...parsed, selfId } (no guildId)
EntryOf(p, selfId) ==
  [platform |-> p.platform, channelId |-> p.channelId, selfId |-> selfId,
   guildId |-> Undefined]

\* targets.findIndex(...) (line 461), 1-based here, 0 when there is none
FindIndex(list, p) ==
  LET hits == {i \in 1..Len(list) : SameChannel(list[i], p)}
  IN IF hits = {} THEN 0 ELSE CHOOSE i \in hits : \A j \in hits : i <= j

\* targets.splice(index, 1)
Splice(list, i) == SubSeq(list, 1, i - 1) \o SubSeq(list, i + 1, Len(list))

\* session.text(path, args)
Text(path, args) == [text |-> path, args |-> args]
NoReply == Text("", <<>>)

\* a slot with no command running
IdleCmd ==
  [pc |-> "idle", kind |-> "none", id |-> <<>>, session |-> Null, parsed |-> Null,
   selfId |-> Undefined, read |-> <<>>, readOk |-> TRUE, targets |-> <<>>,
   reply |-> NoReply, threw |-> FALSE]

\* the action returns: what stays of the execution is its outcome
Returns(cmd, reply) ==
  [IdleCmd EXCEPT !.pc = "done", !.kind = cmd.kind, !.id = cmd.id,
                  !.session = cmd.session, !.reply = reply]

\* the action rejects
Throws(cmd) ==
  [IdleCmd EXCEPT !.pc = "done", !.kind = cmd.kind, !.id = cmd.id,
                  !.session = cmd.session, !.threw = TRUE]

\* the mutant of AddAfterTargets: the duplicate test compares the channel id only
AddAfterTargetsByChannelId(cmd, list) ==
  IF \E i \in 1..Len(list) : list[i].channelId = cmd.parsed.channelId
  THEN Returns(cmd, Text(".unchanged", <<formatTarget(cmd.parsed)>>))
  ELSE [cmd EXCEPT !.pc = "write",
                   !.targets = Append(list, EntryOf(cmd.parsed, cmd.selfId))]

\* forward.add after getTargets (lines 439-445): 'unchanged' when the channel
\* is there already, else the entry is pushed and the list goes to the store
AddAfterTargets(cmd, list) ==
  IF HasTarget(list, cmd.parsed)
  THEN Returns(cmd, Text(".unchanged", <<formatTarget(cmd.parsed)>>))
  ELSE [cmd EXCEPT !.pc = "write",
                   !.targets = Append(list, EntryOf(cmd.parsed, cmd.selfId))]

\* forward.remove after getTargets (lines 461-475)
RemoveAfterTargets(cmd, list) ==
  LET index == FindIndex(list, cmd.parsed)
  IN IF index > 0
     THEN [cmd EXCEPT !.pc = "write", !.targets = Splice(list, index)]
     ELSE Returns(cmd, Text(".unchanged", <<cmd.id>>))

\* forward.list after getTargets (lines 492-493)
ListAfterTargets(cmd, list) ==
  IF Len(list) = 0 THEN Returns(cmd, Text(".empty", <<>>))
  ELSE Returns(cmd, Text(".header", [i \in 1..Len(list) |-> formatTarget(list[i])]))

\* the command goes on with what getTargets returned
AfterTargets(cmd, list, ok) ==
  LET got == [cmd EXCEPT !.read = list, !.readOk = ok]
  IN CASE cmd.kind = "add" -> AddAfterTargets(got, list)
       [] cmd.kind = "remove" -> RemoveAfterTargets(got, list)
       [] OTHER -> ListAfterTargets(got, list)

\* getTargets in database mode (lines 362-382): session.channel.forward when
\* the session carries its channel row, else a read of the channel table
AwaitTargets(cmd) ==
  IF cmd.session.hasChannel
  THEN AfterTargets(cmd, RowOf(RowKey(cmd.session)), TRUE)
  ELSE [cmd EXCEPT !.pc = "read"]

Started(kind, session, id) ==
  [IdleCmd EXCEPT !.kind = kind, !.session = session, !.id = id]

\* forward.add up to its first await (lines 433-438)
AddStart(c, session, id) ==
  /\ cmds[c].pc = "idle"
  /\ LET p == parseTarget(bots, id)
         selfId == IF p = Null THEN Undefined ELSE findBot(bots, p.platform)
         cmd == [Started("add", session, id) EXCEPT !.parsed = p, !.selfId = selfId]
     IN cmds' = [cmds EXCEPT ![c] =
          IF p = Null \/ selfId = Undefined
          THEN Returns(cmd, Text(".no-bot", <<>>))
          ELSE AwaitTargets(cmd)]
  /\ UNCHANGED <<bots, store, codecVars, relayVars>>

\* forward.remove up to its first await (lines 457-460)
RemoveStart(c, session, id) ==
  /\ cmds[c].pc = "idle"
  /\ LET p == parseTarget(bots, id)
         cmd == [Started("remove", session, id) EXCEPT !.parsed = p]
     IN cmds' = [cmds EXCEPT ![c] =
          IF p = Null THEN Returns(cmd, Text(".unchanged", <<id>>))
          ELSE AwaitTargets(cmd)]
  /\ UNCHANGED <<bots, store, codecVars, relayVars>>

\* forward.clear up to its await (lines 479-480): the empty list goes to the store
ClearStart(c, session) ==
  /\ cmds[c].pc = "idle"
  /\ cmds' = [cmds EXCEPT ![c] =
       [Started("clear", session, <<>>) EXCEPT !.pc = "write", !.targets = <<>>]]
  /\ UNCHANGED <<bots, store, codecVars, relayVars>>

\* forward.list up to its await (line 491)
ListStart(c, session) ==
  /\ cmds[c].pc = "idle"
  /\ cmds' = [cmds EXCEPT ![c] = AwaitTargets(Started("list", session, <<>>))]
  /\ UNCHANGED <<bots, store, codecVars, relayVars>>

\* ctx.database.get resolves (lines 370-376)
CmdRead(c) ==
  /\ cmds[c].pc = "read"
  /\ cmds' = [cmds EXCEPT ![c] =
       AfterTargets(cmds[c], RowOf(RowKey(cmds[c].session)), TRUE)]
  /\ UNCHANGED <<bots, store, codecVars, relayVars>>

\* ctx.database.get rejects: caught, getTargets returns [] (lines 377-381)
CmdReadFail(c) ==
  /\ cmds[c].pc = "read"
  /\ cmds' = [cmds EXCEPT ![c] = AfterTargets(cmds[c], <<>>, FALSE)]
  /\ UNCHANGED <<bots, store, codecVars, relayVars>>

\* the reply after the upsert (lines 453, 472, 487)
UpdatedReply(cmd) ==
  CASE cmd.kind = "add" -> Text(".updated", <<formatTarget(cmd.targets[Len(cmd.targets)])>>)
    [] cmd.kind = "remove" -> Text(".updated", <<cmd.id>>)
    [] OTHER -> Text(".updated", <<>>)

\* ctx.database.upsert resolves (lines 445-453, 464-472, 479-487); it is
\* skipped when getChannelId gives nothing
CmdWrite(c) ==
  /\ cmds[c].pc = "write"
  /\ store' = IF getChannelId(cmds[c].session) # <<>>
              THEN [k \in DOMAIN store \cup {RowKey(cmds[c].session)} |->
                      IF k = RowKey(cmds[c].session) THEN cmds[c].targets ELSE store[k]]
              ELSE store
  /\ cmds' = [cmds EXCEPT ![c] = Returns(cmds[c], UpdatedReply(cmds[c]))]
  /\ UNCHANGED <<bots, codecVars, relayVars>>

\* ctx.database.upsert rejects: nothing catches it, the action rejects
CmdWriteFail(c) ==
  /\ cmds[c].pc = "write"
  /\ getChannelId(cmds[c].session) # <<>>
  /\ cmds' = [cmds EXCEPT ![c] = Throws(cmds[c])]
  /\ UNCHANGED <<bots, store, codecVars, relayVars>>

\* the command's promise is settled and its slot is free again
CmdReturn(c) ==
  /\ cmds[c].pc = "done"
  /\ cmds' = [cmds EXCEPT ![c] = IdleCmd]
  /\ UNCHANGED <<bots, store, codecVars, relayVars>>

\* a bot connects / disconnects between the steps of the commands
CmdConnect(b) ==
  /\ \A i \in 1..Len(bots) : bots[i] # b
  /\ bots' = Append(bots, b)
  /\ UNCHANGED <<cmdVars, codecVars, relayVars>>

CmdDisconnect(i) ==
  /\ i \in 1..Len(bots)
  /\ bots' = Splice(bots, i)
  /\ UNCHANGED <<cmdVars, codecVars, relayVars>>

\* the command executions that may overlap: slot 1 runs any command, slot 2 a
\* second add that overlaps it
CmdSlots == {1, 2}
AnyCmdSlots == {1}

PlatformA == <<"a">>
PlatformB == <<"b">>
PlatformBC == <<"b", Colon, "c">>

\* the invoking channel: a:1, seen as a scalar id with its row attached, or
\* (a private chat) as an object with a nested id and no row attached
CmdSessions ==
  {[platform |-> PlatformA, channelId |-> [kind |-> "scalar", id |-> <<"1">>],
    hasChannel |-> TRUE],
   [platform |-> PlatformA, channelId |-> [kind |-> "object", id |-> <<"1">>],
    hasChannel |-> FALSE]}

\* the addresses given to add and remove: b:1, b:c:1 (platform b or b:c), and
\* one without a delimiter
CmdAddresses ==
  {<<"b", Colon, "1">>, <<"b", Colon, "c", Colon, "1">>, <<"b", "c">>}

CmdBotPool ==
  {[platform |-> PlatformB, selfId |-> "B1"],
   [platform |-> PlatformBC, selfId |-> "B3"]}

InitCmd ==
  /\ bots = <<>>
  /\ store = [k \in {} |-> <<>>]
  /\ cmds = [c \in CmdSlots |-> IdleCmd]
  /\ target = <<>>
  /\ parsed = Null
  /\ formatted = <<>>
  /\ RelayUnused

NextCmd ==
  \/ \E b \in CmdBotPool : CmdConnect(b)
  \/ \E i \in 1..Cardinality(CmdBotPool) : CmdDisconnect(i)
  \/ \E c \in CmdSlots, s \in CmdSessions, id \in CmdAddresses : AddStart(c, s, id)
  \/ \E c \in AnyCmdSlots, s \in CmdSessions, id \in CmdAddresses : RemoveStart(c, s, id)
  \/ \E c \in AnyCmdSlots, s \in CmdSessions : ClearStart(c, s)
  \/ \E c \in AnyCmdSlots, s \in CmdSessions : ListStart(c, s)
  \/ \E c \in CmdSlots : CmdRead(c)
  \/ \E c \in CmdSlots : CmdReadFail(c)
  \/ \E c \in CmdSlots : CmdWrite(c)
  \/ \E c \in CmdSlots : CmdWriteFail(c)
  \/ \E c \in CmdSlots : CmdReturn(c)

SpecCmd == InitCmd /\ [][NextCmd]_vars

\* ---- the add command: C9, C10 ----
\* this step starts an add in slot c
StartsAdd(c) == cmds[c].pc = "idle" /\ cmds'[c].kind = "add"

\* this step settles an add in slot c (it returns or rejects)
SettlesAdd(c) == cmds[c].pc # "done" /\ cmds'[c].pc = "done" /\ cmds'[c].kind = "add"

\* the address the add of slot c was given, parsed as it was when the add started
AddParsed(c) ==
  IF cmds[c].pc = "idle" THEN parseTarget(bots, cmds'[c].id) ELSE cmds[c].parsed

\* no connected bot has the platform
NoBotFor(platform) == \A i \in 1..Len(bots) : bots[i].platform # platform

\* s is the selfId of the first connected bot of the platform
FirstBotOf(platform, s) ==
  \E i \in 1..Len(bots) :
    /\ bots[i].platform = platform /\ bots[i].selfId = s
    /\ \A j \in 1..(i - 1) : bots[j].platform # platform

\* the stored targets of the invoking channel, before and after this step
RowBefore(c) == RowOf(RowKey(cmds'[c].session))
RowAfter(c) ==
  LET k == RowKey(cmds'[c].session) IN IF k \in DOMAIN store' THEN store'[k] ELSE <<>>

\* the target add appends: { platform, channelId, selfId of the bot found }
AddedTarget(c) ==
  [platform |-> AddParsed(c).platform, channelId |-> AddParsed(c).channelId,
   selfId |-> cmds[c].selfId, guildId |-> Undefined]

\* what C9 says an add does at the step that settles it, for an address that
\* parsed and whose platform had a bot
AddOutcome(c) ==
  IF HasTarget(RowBefore(c), AddParsed(c))
  THEN /\ RowAfter(c) = RowBefore(c)
       /\ ~cmds'[c].threw /\ cmds'[c].reply.text = ".unchanged"
  ELSE /\ cmds[c].pc = "write"
       /\ RowAfter(c) = Append(RowBefore(c), AddedTarget(c))
       /\ ~cmds'[c].threw /\ cmds'[c].reply.text = ".updated"

\* an add that goes on past its bot lookup has the parse result and the
\* selfId of the first connected bot of the parsed platform
AddFindsBot(c) ==
  (StartsAdd(c) /\ cmds'[c].pc \in {"read", "write"})
    => /\ cmds'[c].parsed = parseTarget(bots, cmds'[c].id)
       /\ FirstBotOf(cmds'[c].parsed.platform, cmds'[c].selfId)

\* the add of slot c was given an address that parsed, to a platform with a bot
AddHadBot(c) ==
  IF cmds[c].pc = "idle"
  THEN AddParsed(c) # Null /\ ~NoBotFor(AddParsed(c).platform)
  ELSE TRUE

\* the step that settles the add is not a failed write, and if it is the
\* write, the add's read succeeded and the row is still what it read
AddUndisturbed(c) ==
  /\ ~cmds'[c].threw
  /\ cmds[c].pc = "write" => cmds[c].readOk /\ cmds[c].read = RowBefore(c)

\* no two stored targets of a row have the same platform and channel id
NoDuplicateTargets ==
  \A k \in DOMAIN store : \A i, j \in 1..Len(store[k]) :
    SameChannel(store[k][i], store[k][j]) => i = j

C10_AddNoBot ==
  [][\A c \in CmdSlots :
       (StartsAdd(c) /\ (AddParsed(c) = Null \/ NoBotFor(AddParsed(c).platform)))
         => /\ cmds'[c].pc = "done"
            /\ cmds'[c].reply = Text(".no-bot", <<>>)
            /\ ~cmds'[c].threw
            /\ store' = store]_vars

\* C10 witness: an add of an address without delimiter and an add of a
\* well-formed address whose platform has no bot have both returned 'no
\* matching bot', with targets stored
C10_Witness ==
  \E c \in CmdSlots, d \in CmdSlots :
    /\ cmds[c].pc = "done" /\ cmds[c].kind = "add" /\ cmds[c].reply.text = ".no-bot"
    /\ IndexOf(cmds[c].id, Colon) < 0
    /\ cmds[d].pc = "done" /\ cmds[d].kind = "add" /\ cmds[d].reply.text = ".no-bot"
    /\ IndexOf(cmds[d].id, Colon) > 0
    /\ \E k \in DOMAIN store : store[k] # <<>>

(***************************************************************************)
(* The relay: sendRelay, getTargets and the middleware (lines 314-409),     *)
(* with relayMap and its expiry timers.  One message is handled at a time;  *)
(* its continuation and its relays run concurrently, step by step at their  *)
(* awaits.  A timer that is due fires before anything else runs.            *)
(***************************************************************************)
\* Time.hour, in units of 20 minutes (the clock of the model)
TimeHour == 3
\* the clock stops here
MaxTime == 2

\* the message ids bot.sendMessage may return
MsgIds == {"m1", "m2"}
SendResults == {<<>>, <<"m1">>, <<"m1", "m2">>}

\* config.replyTimeout || Time.hour (line 346): 0 is falsy
ReplyDelay(cfg) == IF cfg.replyTimeout # 0 THEN cfg.replyTimeout ELSE TimeHour

\* ---- message content: a sequence of text and at elements ----
TextEl(parts) == [type |-> "text", text |-> parts]
AtEl(id) == [type |-> "at", id |-> id]

\* segment.select(stripped.content, 'at').length (line 327)
HasAt(content) == \E i \in 1..Len(content) : content[i].type = "at"

\* session.bot.getGuildMemberMap(guildId) (line 328): member id -> name
GuildMemberMap(guildId) ==
  IF guildId = "g" THEN [id \in {"u1"} |-> "Alice"] ELSE [id \in {} |-> ""]

\* dict[attrs.id]: undefined for an id the dict does not have
DictGet(dict, id) == IF id \in DOMAIN dict THEN dict[id] ELSE Undefined

\* segment.transform(content, { at(attrs) {...} }) (lines 329-334): an at
\* element without id is kept, any other becomes the text '@' + dict[id]
TransformAt(content, dict) ==
  [i \in 1..Len(content) |->
     IF content[i].type = "at" /\ content[i].id # Undefined
     THEN TextEl(<<"@", DictGet(dict, content[i].id)>>)
     ELSE content[i]]

\* `${author.name}: ${content}` (line 337)
Prefixed(author, content) == <<TextEl(<<author.name, ": ">>)>> \o content

\* ---- sendRelay (lines 314-352) ----
\* ctx.bots[`${platform}:${selfId}`] (line 321)
BotFor(platform, selfId) ==
  \E i \in 1..Len(bots) : bots[i].platform = platform /\ bots[i].selfId = selfId

\* bot.sendMessage(channelId, content, guildId) of the bot platform:selfId
SendOf(entry, content) ==
  [platform |-> entry.platform, selfId |-> entry.selfId,
   channelId |-> entry.channelId, guildId |-> entry.guildId, content |-> content]

\* one sendRelay call: where it waits, how it ended, the send it dispatched
Task(entry, pc, status, sent) ==
  [entry |-> entry, pc |-> pc, status |-> status, sent |-> sent]

\* sendRelay up to its first await (lines 315-338): nothing for an empty
\* content, a warning for a missing bot, else the member map is awaited (a
\* mention in a guild) or the message is sent
StartRelay(session, entry) ==
  IF session.content = <<>> THEN Task(entry, "done", "empty", Null)
  ELSE IF ~BotFor(entry.platform, entry.selfId) THEN Task(entry, "done", "nobot", Null)
  ELSE IF HasAt(session.content) /\ session.guildId # Undefined
       THEN Task(entry, "members", "", Null)
       ELSE Task(entry, "sending", "",
                 SendOf(entry, Prefixed(session.author, session.content)))

\* the mutant of OriginOf: the channel as the session has it, not normalized
OriginOfRawChannel(session) ==
  [platform |-> session.platform,
   channelId |-> IF session.channelId.kind = "object" THEN ObjectKey
                 ELSE session.channelId.id,
   selfId |-> session.selfId, guildId |-> session.guildId]

\* the entry sendRelay registers for the ids sent (lines 340-345)
OriginOf(session) ==
  [platform |-> session.platform, channelId |-> getChannelId(session),
   selfId |-> session.selfId, guildId |-> session.guildId]

\* ---- getTargets (lines 361-392) ----
\* session.cid: `${platform}:${channelId}`, the channel id as JavaScript
\* turns it into a string
Cid(session) ==
  session.platform \o <<Colon>> \o
    (IF session.channelId.kind = "object" THEN ObjectKey ELSE session.channelId.id)

\* (config.rules || []).filter(rule => rule.source === session.cid) (line 385)
SelectRules(rules, session) == SelectSeq(rules, LAMBDA r : r.source = Cid(session))

\* .map(parseTarget ...).filter(Boolean) (lines 386-391)
RuleTargets(rules) ==
  LET ok == SelectSeq(rules, LAMBDA r : parseTarget(bots, r.target) # Null)
  IN [i \in 1..Len(ok) |->
        [platform |-> parseTarget(bots, ok[i].target).platform,
         channelId |-> parseTarget(bots, ok[i].target).channelId,
         selfId |-> ok[i].selfId, guildId |-> ok[i].guildId]]

\* getTargets in config mode (lines 384-391)
ConfigTargets(session) == RuleTargets(SelectRules(config.rules, session))

\* ---- the middleware (lines 394-409) ----
\* read: how the store read of getTargets ended, if there was one
IdleHandler ==
  [pc |-> "idle", kind |-> "none", session |-> Null, tasks |-> <<>>, next |-> "none",
   read |-> "none"]

\* line 397: return sendRelay(session, data); next is not called
ReplyHandler(session, data) ==
  [pc |-> "running", kind |-> "reply", session |-> session,
   tasks |-> <<StartRelay(session, data)>>, next |-> "none", read |-> "none"]

\* the mutant of ForwardHandler: the loop stops at the first target whose
\* relay ends at once (a missing bot aborts the fan-out)
ForwardHandlerAbortOnFailure(session, targets) ==
  LET all == [i \in 1..Len(targets) |-> StartRelay(session, targets[i])]
      bad == {i \in 1..Len(all) : all[i].status = "nobot"}
      n == IF bad = {} THEN Len(all) ELSE CHOOSE i \in bad : \A j \in bad : i <= j
  IN [pc |-> "running", kind |-> "forward", session |-> session,
      tasks |-> SubSeq(all, 1, n), next |-> "running", read |-> "none"]

\* lines 403-407: sendRelay for every target, then next(), all awaited together
ForwardHandler(session, targets) ==
  [pc |-> "running", kind |-> "forward", session |-> session,
   tasks |-> [i \in 1..Len(targets) |-> StartRelay(session, targets[i])],
   next |-> "running", read |-> "none"]

\* the mutant of QuotedEntry: the quoted id is not looked up
QuotedEntryNever(session) == Null

\* line 396: quote.id ? relayMap[quote.id] : undefined
QuotedEntry(session) ==
  IF session.quote # Undefined THEN relayMap[session.quote] ELSE Null

AllTasksDone(hh) == \A i \in 1..Len(hh.tasks) : hh.tasks[i].pc = "done"

\* how the middleware's promise stands: a reply's is its sendRelay's (line
\* 397); a forward's is Promise.all's (line 407), which rejects as soon as
\* next() rejects and resolves when next() and every relay have resolved
Outcome(hh) ==
  CASE hh.pc # "running" -> "pending"
    [] hh.kind = "reply" -> IF AllTasksDone(hh) THEN "resolved" ELSE "pending"
    [] hh.next = "failed" -> "rejected"
    [] hh.next = "ok" /\ AllTasksDone(hh) -> "resolved"
    [] OTHER -> "pending"

\* nothing of the current message is still running
Finished(hh) ==
  hh.pc = "idle" \/ (hh.pc = "running" /\ AllTasksDone(hh) /\ hh.next # "running")

\* a timer whose time has come; it fires before anything else runs
DueTimers == {t \in timers : t.at <= now}

\* the middleware up to its first await (lines 395-400)
Receive(session) ==
  /\ DueTimers = {}
  /\ Finished(h)
  /\ LET data == QuotedEntry(session)
     IN h' = IF data # Null THEN ReplyHandler(session, data)
             ELSE IF config.mode # "database"
                  THEN ForwardHandler(session, ConfigTargets(session))
                  ELSE IF session.hasChannel
                       THEN ForwardHandler(session, RowOf(RowKey(session)))
                       ELSE [IdleHandler EXCEPT !.pc = "targets", !.kind = "forward",
                                                !.session = session]
  /\ UNCHANGED <<bots, store, cmds, codecVars, config, relayMap, timers, now, registered>>

\* getTargets: ctx.database.get resolves (lines 370-376)
TargetsRead ==
  /\ DueTimers = {}
  /\ h.pc = "targets"
  /\ h' = [ForwardHandler(h.session, RowOf(RowKey(h.session))) EXCEPT !.read = "ok"]
  /\ UNCHANGED <<bots, store, cmds, codecVars, config, relayMap, timers, now, registered>>

\* the mutant of TargetsReadFail: the targets are forwarded to all the same
TargetsReadFailForwards ==
  /\ DueTimers = {}
  /\ h.pc = "targets"
  /\ h' = [ForwardHandler(h.session, RowOf(RowKey(h.session))) EXCEPT !.read = "failed"]
  /\ UNCHANGED <<bots, store, cmds, codecVars, config, relayMap, timers, now, registered>>

\* getTargets: ctx.database.get rejects, [] is returned (lines 377-381)
TargetsReadFail ==
  /\ DueTimers = {}
  /\ h.pc = "targets"
  /\ h' = [ForwardHandler(h.session, <<>>) EXCEPT !.read = "failed"]
  /\ UNCHANGED <<bots, store, cmds, codecVars, config, relayMap, timers, now, registered>>

SetTask(i, task) == [h EXCEPT !.tasks[i] = task]

\* getGuildMemberMap resolves: the mentions are rewritten and the message is
\* sent (lines 328-338)
MembersOk(i) ==
  /\ DueTimers = {}
  /\ i \in 1..Len(h.tasks) /\ h.tasks[i].pc = "members"
  /\ LET e == h.tasks[i].entry
         content == TransformAt(h.session.content, GuildMemberMap(h.session.guildId))
     IN h' = SetTask(i, Task(e, "sending", "", SendOf(e, Prefixed(h.session.author, content))))
  /\ UNCHANGED <<bots, store, cmds, codecVars, config, relayMap, timers, now, registered>>

\* getGuildMemberMap rejects: caught and logged (lines 349-351)
MembersFail(i) ==
  /\ DueTimers = {}
  /\ i \in 1..Len(h.tasks) /\ h.tasks[i].pc = "members"
  /\ h' = SetTask(i, Task(h.tasks[i].entry, "done", "members-failed", Null))
  /\ UNCHANGED <<bots, store, cmds, codecVars, config, relayMap, timers, now, registered>>

IdsOf(ids) == {ids[j] : j \in 1..Len(ids)}

\* bot.sendMessage resolves with ids: each id gets the origin of the message
\* and a timer that deletes it after the reply delay (lines 338-348)
SendOk(i, ids) ==
  /\ DueTimers = {}
  /\ i \in 1..Len(h.tasks) /\ h.tasks[i].pc = "sending"
  /\ h' = SetTask(i, [h.tasks[i] EXCEPT !.pc = "done", !.status = "sent"])
  /\ relayMap' = [id \in MsgIds |->
                    IF id \in IdsOf(ids) THEN OriginOf(h.session) ELSE relayMap[id]]
  /\ timers' = timers \cup {[id |-> id, at |-> now + ReplyDelay(config)] : id \in IdsOf(ids)}
  /\ registered' = [id \in MsgIds |->
                      IF id \in IdsOf(ids)
                      THEN [at |-> now]
                      ELSE registered[id]]
  /\ UNCHANGED <<bots, store, cmds, codecVars, config, now>>

\* bot.sendMessage rejects: caught and logged (lines 349-351)
SendFail(i) ==
  /\ DueTimers = {}
  /\ i \in 1..Len(h.tasks) /\ h.tasks[i].pc = "sending"
  /\ h' = SetTask(i, [h.tasks[i] EXCEPT !.pc = "done", !.status = "send-failed"])
  /\ UNCHANGED <<bots, store, cmds, codecVars, config, relayMap, timers, now, registered>>

\* next() resolves
NextOk ==
  /\ DueTimers = {}
  /\ h.pc = "running" /\ h.next = "running"
  /\ h' = [h EXCEPT !.next = "ok"]
  /\ UNCHANGED <<bots, store, cmds, codecVars, config, relayMap, timers, now, registered>>

\* next() rejects
NextFail ==
  /\ DueTimers = {}
  /\ h.pc = "running" /\ h.next = "running"
  /\ h' = [h EXCEPT !.next = "failed"]
  /\ UNCHANGED <<bots, store, cmds, codecVars, config, relayMap, timers, now, registered>>

\* the timer's callback (line 346): delete relayMap[id]
Expire(t) ==
  /\ t \in DueTimers
  /\ relayMap' = [relayMap EXCEPT ![t.id] = Null]
  /\ timers' = timers \ {t}
  /\ UNCHANGED <<bots, store, cmds, codecVars, config, now, registered, h>>

\* time passes; the clock is read only by pending timers
Tick ==
  /\ DueTimers = {}
  /\ timers # {}
  /\ now < MaxTime
  /\ now' = now + 1
  /\ UNCHANGED <<bots, store, cmds, codecVars, config, relayMap, timers, registered, h>>

\* a bot connects / disconnects; the bots are read only where relays start,
\* so the changes while relays are in flight are left out
RelayConnect(b) ==
  /\ DueTimers = {}
  /\ Finished(h) \/ h.pc = "targets"
  /\ \A i \in 1..Len(bots) : bots[i] # b
  /\ bots' = Append(bots, b)
  /\ UNCHANGED <<cmdVars, codecVars, relayVars>>

RelayDisconnect(b) ==
  /\ DueTimers = {}
  /\ Finished(h) \/ h.pc = "targets"
  /\ \E i \in 1..Len(bots) : bots[i] = b /\ bots' = Splice(bots, i)
  /\ UNCHANGED <<cmdVars, codecVars, relayVars>>

\* ---- the channels, rules and messages of the model ----
PlatformC == <<"c">>
BotA == [platform |-> PlatformA, selfId |-> "B1"]
BotB == [platform |-> PlatformB, selfId |-> "B2"]
BotC == [platform |-> PlatformC, selfId |-> "B3"]

AddrA == <<"a", Colon, "1">>
AddrB == <<"b", Colon, "2">>
AddrC == <<"c", Colon, "3">>

Rule(source, tgt, selfId, guildId) ==
  [source |-> source, target |-> tgt, selfId |-> selfId, guildId |-> guildId]

\* a:1 goes to c:3 and b:2 (and to an address without delimiter), b:2 to a:1
Rules ==
  <<Rule(AddrA, AddrC, "B3", "gc"), Rule(AddrA, <<"z", "z">>, "B2", "gb"),
    Rule(AddrA, AddrB, "B2", "gb"), Rule(AddrB, AddrA, "B1", "g")>>

Stored(platform, id, selfId) ==
  [platform |-> platform, channelId |-> id, selfId |-> selfId, guildId |-> Undefined]

\* the same routes as forward.add stores them
RelayStore ==
  (<<PlatformA, <<"1">>>> :> <<Stored(PlatformC, <<"3">>, "B3"), Stored(PlatformB, <<"2">>, "B2")>>)
  @@ (<<PlatformB, <<"2">>>> :> <<Stored(PlatformA, <<"1">>, "B1")>>)

\* a message's channel: a:1 in guild g with its row attached; b:2 outside any
\* guild, with a scalar id or an object with a nested id, no row attached
Channels ==
  {[platform |-> PlatformA, channelId |-> [kind |-> "scalar", id |-> <<"1">>],
    selfId |-> "B1", guildId |-> "g", hasChannel |-> TRUE],
   [platform |-> PlatformB, channelId |-> [kind |-> "scalar", id |-> <<"2">>],
    selfId |-> "B2", guildId |-> Undefined, hasChannel |-> FALSE],
   [platform |-> PlatformB, channelId |-> [kind |-> "object", id |-> <<"2">>],
    selfId |-> "B2", guildId |-> Undefined, hasChannel |-> FALSE]}

Empty == <<>>
Plain == <<TextEl(<<"hi">>)>>
Mention == <<AtEl("u1"), TextEl(<<"hi">>)>>
\* u2 is not a member of the guild
MentionUnknown == <<AtEl("u1"), AtEl("u2")>>

ChannelA == CHOOSE ch \in Channels : ch.platform = PlatformA
ChannelB == CHOOSE ch \in Channels : ch.platform = PlatformB /\ ch.channelId.kind = "scalar"
ChannelBObject == CHOOSE ch \in Channels : ch.channelId.kind = "object"

Session(ch, content, quote) ==
  [platform |-> ch.platform, channelId |-> ch.channelId, selfId |-> ch.selfId,
   guildId |-> ch.guildId, hasChannel |-> ch.hasChannel,
   author |-> [name |-> "Ann"], content |-> content, quote |-> quote]

\* the messages received: plain ones, replies to m1, an empty one, ones
\* that mention member u1
Sessions ==
  {Session(ChannelA, Empty, Undefined), Session(ChannelA, Plain, Undefined),
   Session(ChannelA, Mention, Undefined), Session(ChannelA, Plain, "m1"),
   Session(ChannelA, MentionUnknown, Undefined),
   Session(ChannelA, Mention, "m1"),
   Session(ChannelB, Plain, Undefined), Session(ChannelB, Mention, Undefined),
   Session(ChannelB, Plain, "m1"), Session(ChannelA, Plain, "m2"),
   Session(ChannelBObject, Plain, Undefined)}

\* the values of replyTimeout tried: 0 (which the schema accepts) and 2
ReplyTimeouts == {0, 2}

Init ==
  /\ bots = <<BotA, BotB>>
  /\ config \in {[mode |-> m, rules |-> Rules, replyTimeout |-> t] :
                   m \in {"config", "database"}, t \in ReplyTimeouts}
  /\ store = RelayStore
  /\ relayMap = [id \in MsgIds |-> Null]
  /\ timers = {}
  /\ now = 0
  /\ registered = [id \in MsgIds |-> Null]
  /\ h = IdleHandler
  /\ cmds = <<>>
  /\ target = <<>>
  /\ parsed = Null
  /\ formatted = <<>>

Next ==
  \/ \E s \in Sessions : Receive(s)
  \/ TargetsRead
  \/ TargetsReadFail
  \/ \E i \in 1..Len(Rules) : MembersOk(i)
  \/ \E i \in 1..Len(Rules) : MembersFail(i)
  \/ \E i \in 1..Len(Rules), ids \in SendResults : SendOk(i, ids)
  \/ \E i \in 1..Len(Rules) : SendFail(i)
  \/ NextOk
  \/ NextFail
  \/ \E t \in timers : Expire(t)
  \/ Tick
  \/ RelayConnect(BotC)
  \/ RelayDisconnect(BotC)

Spec == Init /\ [][Next]_vars

(***************************************************************************)
(* Claims about the middleware                                              *)
(***************************************************************************)
\* a message is taken up by the middleware
Received == Finished(h) /\ h' # h

\* getTargets has answered and the relays start
ForwardLaunched ==
  /\ h'.pc = "running" /\ h'.kind = "forward"
  /\ Received \/ h.pc = "targets"

EntriesOf(hh) == [i \in 1..Len(hh.tasks) |-> hh.tasks[i].entry]

\* the quoted id has an entry in the correlation store
LiveQuote(session) == session.quote # Undefined /\ relayMap[session.quote] # Null

\* what the Target Resolver answers for the channel when its store read succeeds
ResolvedTargets(session) ==
  IF config.mode = "database" THEN RowOf(RowKey(session)) ELSE ConfigTargets(session)

\* C1: a message that quotes an id with a live entry in the correlation
\* store starts exactly one relay, to the origin recorded in that entry, and
\* none to the resolved forward targets; a message that quotes nothing, or an
\* id without entry (never registered, or expired), starts one relay per
\* target resolved for its channel (none when the store read fails).
C1_ReplyOrForward ==
  [][/\ (Received /\ LiveQuote(h'.session)) =>
          /\ h'.kind = "reply" /\ h'.pc = "running"
          /\ EntriesOf(h') = <<relayMap[h'.session.quote]>>
     /\ (Received /\ ~LiveQuote(h'.session)) =>
          /\ h'.kind = "forward"
          /\ h'.pc = "running" => EntriesOf(h') = ResolvedTargets(h'.session)
          /\ h'.pc # "running" => config.mode = "database" /\ ~h'.session.hasChannel
     /\ (h.pc = "targets" /\ h' # h) =>
          /\ ForwardLaunched /\ h'.session = h.session
          /\ EntriesOf(h') \in {ResolvedTargets(h.session), <<>>}]_vars

\* a reply to m1 went back to the origin of m1, and a plain message was
\* forwarded before it
C1_Witness ==
  /\ h.kind = "reply" /\ h.session.quote = "m1"
  /\ Len(h.tasks) = 1 /\ h.tasks[1].status = "sent"
  /\ h.tasks[1].entry.platform # h.session.platform

\* C2 (as stated): with T the configured replyTimeout, an id looked up less
\* than T after its latest registration has its entry, and an id looked up T
\* or more after its latest registration has none.  (Lookups happen when no
\* timer is due.)
C2_AsStated ==
  DueTimers = {} =>
    \A id \in MsgIds :
      registered[id] # Null =>
        IF now - registered[id].at < config.replyTimeout
        THEN relayMap[id] # Null
        ELSE relayMap[id] = Null

\* C3 (as stated): whenever the middleware has settled a message, relayed as
\* a reply or as a forward, the continuation next was invoked.
C3_AsStated ==
  (h.pc = "running" /\ Outcome(h) # "pending") => h.next # "none"

\* ---- C4 ----
FailedStatus == {"nobot", "send-failed", "members-failed"}

\* the relay to destination k ends in a failure in this step
TaskFails(k) ==
  /\ h.pc = "running" /\ h'.pc = "running"
  /\ k \in 1..Len(h.tasks) /\ k \in 1..Len(h'.tasks)
  /\ h.tasks[k].pc # "done"
  /\ h'.tasks[k].pc = "done" /\ h'.tasks[k].status \in FailedStatus

\* the relay is waiting for the member map or for its send
InFlight(task) == task.pc \in {"members", "sending"}

\* C4: in a fan-out, a destination without connected bot does not keep the
\* other destinations from their relays (every resolved destination with a
\* connected bot has its relay in flight once the fan-out has started); a
\* relay that fails leaves the other relays, the continuation and the
\* correlation store as they are; and the handler's result is a failure only
\* if the continuation failed.
C4_FailureIsolated ==
  /\ [][/\ (ForwardLaunched /\ h'.tasks # <<>> /\ h'.session.content # <<>>) =>
             /\ EntriesOf(h') = ResolvedTargets(h'.session)
             /\ \A j \in 1..Len(h'.tasks) :
                  IF BotFor(h'.tasks[j].entry.platform, h'.tasks[j].entry.selfId)
                  THEN InFlight(h'.tasks[j])
                  ELSE h'.tasks[j].status = "nobot" /\ h'.tasks[j].sent = Null
        /\ \A k \in 1..Len(Rules) :
             TaskFails(k) =>
               /\ \A j \in 1..Len(h.tasks) : j # k => h'.tasks[j] = h.tasks[j]
               /\ h'.next = h.next
               /\ relayMap' = relayMap /\ timers' = timers]_vars
  /\ [](Outcome(h) = "rejected" => h.next = "failed")

\* the relay to c:3 failed at its send, the relay to b:2 was sent, and the
\* handler resolved
C4_Witness ==
  /\ h.kind = "forward" /\ Len(h.tasks) = 2
  /\ h.tasks[1].status = "send-failed" /\ h.tasks[2].status = "sent"
  /\ relayMap["m1"] = OriginOf(h.session)
  /\ Outcome(h) = "resolved"

\* ---- C8 ----
\* the source channel S of a message: platform and normalized channel id
SourceOf(session) == session.platform \o <<Colon>> \o getChannelId(session)

\* every relay of the message has got to its send or has ended
PastDispatch(hh) == \A i \in 1..Len(hh.tasks) : hh.tasks[i].pc \in {"sending", "done"}

\* the sends dispatched for the message: platform, channel, bot and content
SendsOf(hh) ==
  LET sent == SelectSeq(hh.tasks, LAMBDA t : t.sent # Null)
  IN [i \in 1..Len(sent) |->
        [platform |-> sent[i].sent.platform, channelId |-> sent[i].sent.channelId,
         selfId |-> sent[i].sent.selfId, content |-> sent[i].sent.content]]

\* one send per rule whose source is S and whose target parses
ExpectedSends(session) ==
  LET rules == SelectSeq(config.rules,
                 LAMBDA r : r.source = SourceOf(session) /\ parseTarget(bots, r.target) # Null)
  IN [i \in 1..Len(rules) |->
        [platform |-> parseTarget(bots, rules[i].target).platform,
         channelId |-> parseTarget(bots, rules[i].target).channelId,
         selfId |-> rules[i].selfId,
         content |-> <<TextEl(<<session.author.name, ": ">>)>> \o session.content]]

AllRuleBotsConnected ==
  \A i \in 1..Len(config.rules) :
    parseTarget(bots, config.rules[i].target) # Null =>
      BotFor(parseTarget(bots, config.rules[i].target).platform, config.rules[i].selfId)

\* C8 (as stated): in config mode, with the bots of all rules connected, once
\* every relay of a forwarded message with non-empty content has got to its
\* send or has ended, the sends dispatched are exactly one per rule whose
\* source is the message's channel S and whose target parses, to the rule's
\* parsed platform and channel, through the rule's bot, with the content
\* '<author name>: <content>'.
C8_AsStated ==
  [][(/\ config.mode = "config" /\ AllRuleBotsConnected
      /\ h'.pc = "running" /\ h'.kind = "forward" /\ h'.session.content # <<>>
      /\ PastDispatch(h')
      /\ Received \/ (h' # h /\ ~PastDispatch(h)))
     => SendsOf(h') = ExpectedSends(h'.session)]_vars

\* ---- C11 ----
\* the result of the continuation, as a result of the handler
NextOutcome(hh) ==
  CASE hh.next = "ok" -> "resolved" [] hh.next = "failed" -> "rejected" [] OTHER -> "pending"

\* C11: in database mode, when the store read for the channel's targets has
\* failed, the handler goes on as a forward with no target: no relay is
\* started and no send dispatched, the continuation is invoked, and the
\* handler's result is the continuation's.
C11_ReadFailureGivesNoTargets ==
  h.read = "failed" =>
    /\ config.mode = "database"
    /\ h.pc = "running" /\ h.kind = "forward"
    /\ h.tasks = <<>>
    /\ h.next # "none"
    /\ Outcome(h) = NextOutcome(h)

\* the read for a channel with a stored target failed and the continuation
\* has resolved
C11_Witness ==
  /\ h.read = "failed" /\ RowOf(RowKey(h.session)) # <<>>
  /\ h.session.content # <<>>
  /\ h.next = "ok" /\ Outcome(h) = "resolved"

\* ---- C12 ----
\* C12 (as stated): a command whose store write fails does not raise: the
\* failure is caught inside the command, which ends with a reply (one that
\* is not 'updated').  In the model a command raises only through a failed
\* write, so: no command that has ended has raised.
C12_AsStated ==
  \A c \in CmdSlots : cmds[c].pc = "done" => ~cmds[c].threw

\* ---- C13 ----
\* a relay's send resolves in this step
SendResolves ==
  \E i \in 1..Len(h.tasks) :
    /\ i \in 1..Len(h'.tasks)
    /\ h.tasks[i].pc = "sending" /\ h'.tasks[i].status = "sent"

\* the platform, the normalized channel id (the nested id of an object-shaped
\* channel), the selfId and the guildId of a message
SourceEntry(session) ==
  [platform |-> session.platform, channelId |-> session.channelId.id,
   selfId |-> session.selfId, guildId |-> session.guildId]

\* C13: the correlation store is empty at first; it gains or changes an entry
\* only in a step where a send of the message being handled resolves, and
\* the entry is then the platform, normalized channel id, selfId and guildId
\* of that message (so every key is an id returned by a successful send, and
\* every entry the source of the message that caused it); and a reply is
\* relayed to the channel so recorded, for the ids of forward relays and of
\* reply relays alike.
C13_EntriesAreOrigins ==
  /\ [](\A id \in MsgIds : relayMap[id] # Null => registered[id] # Null)
  /\ [][/\ \A id \in MsgIds :
             (relayMap'[id] # relayMap[id] /\ relayMap'[id] # Null) =>
               /\ SendResolves
               /\ h'.session = h.session
               /\ relayMap'[id] = SourceEntry(h.session)
        /\ (Received /\ h'.kind = "reply") =>
             EntriesOf(h') = <<relayMap[h'.session.quote]>>]_vars

\* a message on b:2 was relayed to a:1 as m1 and m2, which recorded b:2; the
\* reply to m2 on a:1 has been relayed to b:2
C13_Witness ==
  /\ h.kind = "reply" /\ h.session.quote = "m2" /\ h.session.platform = PlatformA
  /\ h.tasks[1].entry.platform = PlatformB /\ h.tasks[1].entry.channelId = <<"2">>
  /\ h.tasks[1].status = "sent"

\* ---- C14 ----
\* C14 (as stated): the handler of a forwarded message has a result only
\* when the continuation and every relay have finished, and the result is
\* the continuation's.
C14_AsStated ==
  (h.kind = "forward" /\ Outcome(h) # "pending") =>
    /\ h.next # "running" /\ AllTasksDone(h)
    /\ Outcome(h) = NextOutcome(h)

\* ---- C15 ----
\* C15 (as stated): in config mode the rules selected for a message are
\* those whose source is its platform, ':' and its normalized channel id,
\* for an object-shaped channel identity as for a scalar one.
C15_AsStated ==
  [][(Received /\ config.mode = "config" /\ h'.kind = "forward") =>
       EntriesOf(h') =
         RuleTargets(SelectSeq(config.rules,
                               LAMBDA r : r.source = SourceOf(h'.session)))]_vars

(***************************************************************************)
(* The earlier revision of the plugin (lines 1-218): targets are address    *)
(* strings, sendRelay takes a partial rule and asks the database for the    *)
(* target channel's assignee when the rule names no bot, and the middleware *)
(* passes direct messages straight to next().  SpecRevisions runs either    *)
(* revision, as config.revision says, on the same messages.                 *)
(***************************************************************************)
\* a partial rule, as the earlier sendRelay takes it
PartialRule(tgt, selfId, guildId) == [target |-> tgt, selfId |-> selfId, guildId |-> guildId]

\* rule.target.split(':', 1)[0] (line 62): what stands before the first ':'
EarlierPlatform(tgt) ==
  IF IndexOf(tgt, Colon) < 0 THEN tgt ELSE SliceTo(tgt, IndexOf(tgt, Colon))

\* rule.target.slice(platform.length + 1) (line 63)
EarlierChannelId(tgt) == Slice(tgt, Len(EarlierPlatform(tgt)) + 1)

\* the channel table as ctx.database.getChannel reads it (line 65): the
\* channels a:1 and b:2 have an assignee, c:3 has none, others are unknown
EarlierChannels ==
  (<<PlatformA, <<"1">>>> :> [assignee |-> "B1", guildId |-> "g"])
  @@ (<<PlatformB, <<"2">>>> :> [assignee |-> "B2", guildId |-> Undefined])
  @@ (<<PlatformC, <<"3">>>> :> [assignee |-> Undefined, guildId |-> Undefined])

\* bot.sendMessage(channelId, content, rule.guildId) (line 84)
EarlierSendOf(rule, content) ==
  [platform |-> EarlierPlatform(rule.target), selfId |-> rule.selfId,
   channelId |-> EarlierChannelId(rule.target), guildId |-> rule.guildId,
   content |-> content]

\* lines 84, 95-97: the message is sent; without a bot for platform:selfId
\* the call throws and the catch ends the relay
EarlierDispatch(rule, content) ==
  IF BotFor(EarlierPlatform(rule.target), rule.selfId)
  THEN Task(rule, "sending", "", EarlierSendOf(rule, content))
  ELSE Task(rule, "done", "nobot", Null)

\* lines 71-83, once the rule names its bot: the member map is awaited for a
\* mention in a guild, else the message is sent
EarlierWithBot(session, rule) ==
  IF HasAt(session.content) /\ session.guildId # Undefined
  THEN Task(rule, "members", "", Null)
  ELSE EarlierDispatch(rule, Prefixed(session.author, session.content))

\* the earlier sendRelay up to its first await (lines 55-84)
EarlierStartRelay(session, rule) ==
  IF session.content = <<>> THEN Task(rule, "done", "empty", Null)
  ELSE IF rule.target = <<>> THEN Task(rule, "done", "notarget", Null)
  ELSE IF rule.selfId = Undefined THEN Task(rule, "assignee", "", Null)
  ELSE EarlierWithBot(session, rule)

\* the entry the earlier sendRelay registers (lines 86-91)
EarlierOriginOf(session, rule) ==
  [source |-> rule.target, target |-> Cid(session),
   selfId |-> session.selfId, guildId |-> session.guildId]

\* the earlier getTargets in config mode (lines 131-133): the target strings
\* of the rules whose source is session.cid
EarlierConfigTargets(session) ==
  LET rules == SelectSeq(config.rules, LAMBDA r : r.source = Cid(session))
  IN [i \in 1..Len(rules) |-> rules[i].target]

\* the mutant of DirectHandler: a direct message is forwarded to the rules'
\* targets like any other
DirectHandlerForwards(session) ==
  [pc |-> "running", kind |-> "forward", session |-> session,
   tasks |-> [i \in 1..Len(EarlierConfigTargets(session)) |->
                EarlierStartRelay(session,
                  PartialRule(EarlierConfigTargets(session)[i], Undefined, Undefined))],
   next |-> "running", read |-> "none"]

\* line 138: if (isDirect) return next()
DirectHandler(session) ==
  [pc |-> "running", kind |-> "direct", session |-> session, tasks |-> <<>>,
   next |-> "running", read |-> "none"]

\* line 140: return sendRelay(session, data)
EarlierReplyHandler(session, data) ==
  [pc |-> "running", kind |-> "reply", session |-> session,
   tasks |-> <<EarlierStartRelay(session, data)>>, next |-> "none", read |-> "none"]

\* lines 145-149: sendRelay(session, { target }) for every target, then next()
EarlierForwardHandler(session, targets) ==
  [pc |-> "running", kind |-> "forward", session |-> session,
   tasks |-> [i \in 1..Len(targets) |->
                EarlierStartRelay(session, PartialRule(targets[i], Undefined, Undefined))],
   next |-> "running", read |-> "none"]

\* the earlier middleware up to its first await (lines 136-143)
EarlierReceive(session) ==
  /\ DueTimers = {}
  /\ Finished(h)
  /\ h' = IF session.isDirect THEN DirectHandler(session)
          ELSE IF QuotedEntry(session) # Null
               THEN EarlierReplyHandler(session, QuotedEntry(session))
               ELSE IF config.mode # "database"
                    THEN EarlierForwardHandler(session, EarlierConfigTargets(session))
                    ELSE IF session.hasChannel
                         THEN EarlierForwardHandler(session, RowOf(RowKey(session)))
                         ELSE [IdleHandler EXCEPT !.pc = "targets", !.kind = "forward",
                                                  !.session = session]
  /\ UNCHANGED <<bots, store, cmds, codecVars, config, relayMap, timers, now, registered>>

\* the earlier getTargets: ctx.database.get resolves (lines 116-123)
EarlierTargetsRead ==
  /\ DueTimers = {}
  /\ h.pc = "targets"
  /\ h' = [EarlierForwardHandler(h.session, RowOf(RowKey(h.session))) EXCEPT !.read = "ok"]
  /\ UNCHANGED <<bots, store, cmds, codecVars, config, relayMap, timers, now, registered>>

\* the earlier getTargets: ctx.database.get rejects (lines 124-128)
EarlierTargetsReadFail ==
  /\ DueTimers = {}
  /\ h.pc = "targets"
  /\ h' = [EarlierForwardHandler(h.session, <<>>) EXCEPT !.read = "failed"]
  /\ UNCHANGED <<bots, store, cmds, codecVars, config, relayMap, timers, now, registered>>

\* ctx.database.getChannel resolves (lines 65-69): without channel or
\* assignee the relay ends, else the rule gets the assignee and its guild
EarlierAssigneeOk(i) ==
  /\ DueTimers = {}
  /\ i \in 1..Len(h.tasks) /\ h.tasks[i].pc = "assignee"
  /\ LET rule == h.tasks[i].entry
         key == <<EarlierPlatform(rule.target), EarlierChannelId(rule.target)>>
     IN h' = SetTask(i,
          IF key \notin DOMAIN EarlierChannels \/ EarlierChannels[key].assignee = Undefined
          THEN Task(rule, "done", "noassignee", Null)
          ELSE EarlierWithBot(h.session,
                 [rule EXCEPT !.selfId = EarlierChannels[key].assignee,
                              !.guildId = EarlierChannels[key].guildId]))
  /\ UNCHANGED <<bots, store, cmds, codecVars, config, relayMap, timers, now, registered>>

\* ctx.database.getChannel rejects: caught and logged (lines 95-97)
EarlierAssigneeFail(i) ==
  /\ DueTimers = {}
  /\ i \in 1..Len(h.tasks) /\ h.tasks[i].pc = "assignee"
  /\ h' = SetTask(i, Task(h.tasks[i].entry, "done", "assignee-failed", Null))
  /\ UNCHANGED <<bots, store, cmds, codecVars, config, relayMap, timers, now, registered>>

\* getGuildMemberMap resolves (lines 74-84)
EarlierMembersOk(i) ==
  /\ DueTimers = {}
  /\ i \in 1..Len(h.tasks) /\ h.tasks[i].pc = "members"
  /\ LET content == TransformAt(h.session.content, GuildMemberMap(h.session.guildId))
     IN h' = SetTask(i, EarlierDispatch(h.tasks[i].entry,
                                       Prefixed(h.session.author, content)))
  /\ UNCHANGED <<bots, store, cmds, codecVars, config, relayMap, timers, now, registered>>

\* getGuildMemberMap rejects: caught and logged (lines 95-97)
EarlierMembersFail(i) ==
  /\ DueTimers = {}
  /\ i \in 1..Len(h.tasks) /\ h.tasks[i].pc = "members"
  /\ h' = SetTask(i, Task(h.tasks[i].entry, "done", "members-failed", Null))
  /\ UNCHANGED <<bots, store, cmds, codecVars, config, relayMap, timers, now, registered>>

\* bot.sendMessage resolves with ids (lines 84-93)
EarlierSendOk(i, ids) ==
  /\ DueTimers = {}
  /\ i \in 1..Len(h.tasks) /\ h.tasks[i].pc = "sending"
  /\ h' = SetTask(i, [h.tasks[i] EXCEPT !.pc = "done", !.status = "sent"])
  /\ relayMap' = [id \in MsgIds |->
                    IF id \in IdsOf(ids) THEN EarlierOriginOf(h.session, h.tasks[i].entry)
                    ELSE relayMap[id]]
  /\ timers' = timers \cup {[id |-> id, at |-> now + ReplyDelay(config)] : id \in IdsOf(ids)}
  /\ registered' = [id \in MsgIds |->
                      IF id \in IdsOf(ids) THEN [at |-> now] ELSE registered[id]]
  /\ UNCHANGED <<bots, store, cmds, codecVars, config, now>>

\* bot.sendMessage rejects: caught and logged (lines 95-97)
EarlierSendFail(i) ==
  /\ DueTimers = {}
  /\ i \in 1..Len(h.tasks) /\ h.tasks[i].pc = "sending"
  /\ h' = SetTask(i, [h.tasks[i] EXCEPT !.pc = "done", !.status = "send-failed"])
  /\ UNCHANGED <<bots, store, cmds, codecVars, config, relayMap, timers, now, registered>>

\* ---- the messages and the configurations both revisions are run on ----
\* the channel table's forward column in the earlier revision: address strings
EarlierStore ==
  (<<PlatformA, <<"1">>>> :> <<AddrC, AddrB>>) @@ (<<PlatformB, <<"2">>>> :> <<AddrA>>)

RevisionSession(ch, content, quote, isDirect) ==
  [isDirect |-> isDirect] @@ Session(ch, content, quote)

\* group messages on a:1 and b:2, and direct messages on b:2 that quote
\* nothing or m1
RevisionSessions ==
  {RevisionSession(ChannelA, Plain, Undefined, FALSE),
   RevisionSession(ChannelA, Mention, Undefined, FALSE),
   RevisionSession(ChannelA, Plain, "m1", FALSE),
   RevisionSession(ChannelB, Plain, "m1", FALSE),
   RevisionSession(ChannelB, Plain, Undefined, TRUE),
   RevisionSession(ChannelB, Plain, "m1", TRUE)}

Revisions == {"earlier", "later"}

InitRevisions ==
  /\ bots = <<BotA, BotB>>
  /\ config \in {[mode |-> m, rules |-> Rules, replyTimeout |-> 2, revision |-> v] :
                   m \in {"config", "database"}, v \in Revisions}
  /\ store = IF config.revision = "earlier" THEN EarlierStore ELSE RelayStore
  /\ relayMap = [id \in MsgIds |-> Null]
  /\ timers = {}
  /\ now = 0
  /\ registered = [id \in MsgIds |-> Null]
  /\ h = IdleHandler
  /\ cmds = <<>>
  /\ target = <<>>
  /\ parsed = Null
  /\ formatted = <<>>

Earlier == config.revision = "earlier"
Later == config.revision = "later"

NextRevisions ==
  \/ \E s \in RevisionSessions : Later /\ Receive(s)
  \/ Later /\ TargetsRead
  \/ Later /\ TargetsReadFail
  \/ \E i \in 1..Len(Rules) : Later /\ MembersOk(i)
  \/ \E i \in 1..Len(Rules) : Later /\ MembersFail(i)
  \/ \E i \in 1..Len(Rules), ids \in SendResults : Later /\ SendOk(i, ids)
  \/ \E i \in 1..Len(Rules) : Later /\ SendFail(i)
  \/ \E s \in RevisionSessions : Earlier /\ EarlierReceive(s)
  \/ Earlier /\ EarlierTargetsRead
  \/ Earlier /\ EarlierTargetsReadFail
  \/ \E i \in 1..Len(Rules) : Earlier /\ EarlierAssigneeOk(i)
  \/ \E i \in 1..Len(Rules) : Earlier /\ EarlierAssigneeFail(i)
  \/ \E i \in 1..Len(Rules) : Earlier /\ EarlierMembersOk(i)
  \/ \E i \in 1..Len(Rules) : Earlier /\ EarlierMembersFail(i)
  \/ \E i \in 1..Len(Rules), ids \in SendResults : Earlier /\ EarlierSendOk(i, ids)
  \/ \E i \in 1..Len(Rules) : Earlier /\ EarlierSendFail(i)
  \/ NextOk
  \/ NextFail
  \/ \E t \in timers : Expire(t)
  \/ Tick

SpecRevisions == InitRevisions /\ [][NextRevisions]_vars

\* ---- C16 ----
\* C16 (as stated): in the earlier revision a direct message is never
\* relayed as a reply, even when it quotes a live id, and is forwarded to
\* the resolved targets like any other message; in the later revision a
\* direct message is handled as a group message is (C1).
C16_AsStated ==
  [][(Received /\ h'.session.isDirect) =>
       IF Earlier
       THEN h'.kind = "forward"
       ELSE IF LiveQuote(h'.session)
            THEN h'.kind = "reply" /\ EntriesOf(h') = <<relayMap[h'.session.quote]>>
            ELSE h'.kind = "forward"]_vars

\* C16 (amended): in the earlier revision a direct message is neither
\* relayed as a reply, even when it quotes a live id, nor forwarded: the
\* middleware starts no relay, only invokes next(), and its result is
\* next()'s; in the later revision a direct message is handled as a group
\* message is: relayed as a reply to the recorded origin when it quotes a
\* live id, else forwarded to the targets resolved for its channel.
C16_DirectSkippedThenRelayed ==
  /\ [][(Received /\ h'.session.isDirect) =>
          IF Earlier
          THEN /\ h'.kind = "direct" /\ h'.pc = "running"
               /\ h'.tasks = <<>> /\ h'.next = "running"
          ELSE IF LiveQuote(h'.session)
               THEN h'.kind = "reply" /\ EntriesOf(h') = <<relayMap[h'.session.quote]>>
               ELSE /\ h'.kind = "forward"
                    /\ h'.pc = "running" => EntriesOf(h') = ResolvedTargets(h'.session)]_vars
  /\ []((Earlier /\ h.kind = "direct") =>
          /\ h.tasks = <<>> /\ h.next # "none"
          /\ Outcome(h) = NextOutcome(h))

\* the earlier revision has passed a direct message that quotes the live id
\* m1 to next(), which has resolved
C16_Witness ==
  /\ Earlier /\ h.kind = "direct" /\ h.session.isDirect
  /\ h.session.quote = "m1" /\ relayMap["m1"] # Null
  /\ h.next = "ok" /\ Outcome(h) = "resolved"

\* ---- C17 ----
\* the content with each mention of a member of the directory replaced by
\* '@' and the member's name, and every other element left as it is
MentionsResolved(content, dict) ==
  [i \in 1..Len(content) |->
     IF content[i].type = "at" /\ content[i].id \in DOMAIN dict
     THEN TextEl(<<"@", dict[content[i].id]>>)
     ELSE content[i]]

\* C17 (as stated): the content sent for a message with mention markup
\* posted in a guild is the author's name and the content in which each
\* mention of an id found in the guild's member directory is '@' and the
\* member's name, and each mention of an id not found is the original mention.
C17_AsStated ==
  \A i \in 1..Len(h.tasks) :
    (/\ h.tasks[i].sent # Null
     /\ HasAt(h.session.content) /\ h.session.guildId # Undefined) =>
      h.tasks[i].sent.content =
        <<TextEl(<<h.session.author.name, ": ">>)>>
          \o MentionsResolved(h.session.content, GuildMemberMap(h.session.guildId))

\* ---- C18 ----
\* slot c takes up a remove on a channel whose row comes with the session
StartsRemove(c) ==
  /\ cmds[c].pc = "idle" /\ cmds'[c].pc # "idle"
  /\ cmds'[c].kind = "remove" /\ cmds'[c].session.hasChannel

\* C18 (as stated): a remove given the address formatTarget(t) of a target t
\* stored for the channel takes t, and nothing else, out of the stored
\* targets (the list it sends to the store is the stored one without t),
\* whatever bots are connected.
C18_AsStated ==
  [][\A c \in CmdSlots :
       StartsRemove(c) =>
         LET row == RowOf(RowKey(cmds'[c].session))
         IN \A i \in 1..Len(row) :
              formatTarget(row[i]) = cmds'[c].id =>
                cmds'[c].pc = "write" /\ cmds'[c].targets = Splice(row, i)]_vars

\* ---- C19 ----
\* the execution in slot c is an add that has reported 'updated'
AddUpdated(c) ==
  cmds[c].pc = "done" /\ cmds[c].kind = "add" /\ cmds[c].reply.text = ".updated"

\* the stored row of the channel holds a target shown as addr
Stores(session, addr) ==
  \E i \in 1..Len(RowOf(RowKey(session))) :
    formatTarget(RowOf(RowKey(session))[i]) = addr

\* C19 (as stated): when two overlapping adds of distinct targets on the
\* same channel (its row attached to both sessions, so no store read can
\* fail) have both reported 'updated', the stored list holds both targets.
C19_AsStated ==
  (/\ AddUpdated(1) /\ AddUpdated(2)
   /\ cmds[1].session = cmds[2].session /\ cmds[1].session.hasChannel
   /\ cmds[1].reply.args # cmds[2].reply.args) =>
    /\ Stores(cmds[1].session, cmds[1].reply.args[1])
    /\ Stores(cmds[2].session, cmds[2].reply.args[1])

====
